---- MODULE Spec2Model ----
(***************************************************************************)
(* Model of the nuclear-exposure dashboard (src/main.js and its            *)
(* decade-change variant src/unnamed/part_000): the load-time index        *)
(* builder (exposure lookup, ranks, decade deltas) and the playback        *)
(* controller that drives state.year on an interval timer.                 *)
(***************************************************************************)
EXTENDS Integers, Sequences, FiniteSets, TLC

VARIABLES
    pc,                 \* "start" before loadData's body has run, "ready" after
    sourceRows,         \* history: the country table as d3.csv delivered it
    countryRows,        \* let countryRows: the parsed (then filtered) CSV rows
    exposureByKey,      \* Map  <<iso3, year, buffer>> -> row
    exposuresByCountry, \* d3.group: iso3 -> rows, in input order
    rankByYearBuffer,   \* Map  <<year, buffer>> -> Map(iso3 -> rank)
    deltaExposureByKey, \* Map  <<iso3, year, buffer>> -> delta | null
    maxDeltaByBuffer,   \* Map  buffer -> max positive delta
    state,              \* const state = {year, buffer, selectedIso3, showPlants, playing}
    playTimer,          \* let playTimer: interval handle, 0 for null
    timers,             \* the runtime's active intervals: handle -> closure variable idx
    handles,            \* number of interval handles the runtime has handed out
    sliderValue,        \* yearSlider.property("value")
    yearLabel,          \* yearLabel.text()
    lastEvent,          \* history: the handler that ran last, with the year it found
    world,              \* let world: the features of the boundaries file
    plantRows,          \* let plantRows: the parsed plant table
    fetch,              \* the three requests of Promise.all: pending, loaded or failed
    messages,           \* number of "Failed to load data." paragraphs on the page
    view                \* what the render functions have put on the page

vars == <<pc, sourceRows, countryRows, exposureByKey, exposuresByCountry, rankByYearBuffer,
          deltaExposureByKey, maxDeltaByBuffer, state, playTimer, timers,
          handles, sliderValue, yearLabel, lastEvent, world, plantRows, fetch,
          messages, view>>

dataVars == <<pc, sourceRows, countryRows, exposureByKey, exposuresByCountry,
              rankByYearBuffer, deltaExposureByKey, maxDeltaByBuffer, world,
              plantRows, fetch, messages>>

uiVars == <<state, playTimer, timers, handles, sliderValue, yearLabel, lastEvent>>

----------------------------------------------------------------------------
(* Fixed enumerations                                                      *)

years == <<1990, 2000, 2010>>
buffers == <<30, 75, 300>>

Range(s) == {s[i] : i \in 1..Len(s)}

(* JavaScript values of a numeric CSV column after d3.autoType: a number,  *)
(* null (empty cell) or NaN.                                               *)
Num(n) == [t |-> "num", v |-> n]
NULL == [t |-> "null", v |-> 0]
NAN == [t |-> "nan", v |-> 0]

\* x != null
NotNull(x) == x.t # "null"

\* undefined (a Map.get miss) and Infinity (a division by zero)
UNDEFINED == [t |-> "undefined", v |-> 0]
INFINITY == [t |-> "inf", v |-> 0]

----------------------------------------------------------------------------
(* Keys                                                                    *)

keyExposure(iso3, year, buffer) == <<iso3, year, buffer>>

keyYearBuffer(year, buffer) == <<year, buffer>>

----------------------------------------------------------------------------
(* featureIso3: the country code of a GeoJSON feature                      *)

\* Text is a sequence of one-character strings.
LowerCase == <<"a", "b", "c", "d", "e", "f", "g", "h", "i", "j", "k", "l", "m",
               "n", "o", "p", "q", "r", "s", "t", "u", "v", "w", "x", "y", "z">>
UpperCase == <<"A", "B", "C", "D", "E", "F", "G", "H", "I", "J", "K", "L", "M",
               "N", "O", "P", "Q", "R", "S", "T", "U", "V", "W", "X", "Y", "Z">>

\* values of f.id and of the properties: undefined, a string or a number
\* (a number carries the characters of its decimal form)
Absent == [t |-> "undefined", chars |-> <<>>]
Str(chars) == [t |-> "string", chars |-> chars]
Number(chars) == [t |-> "number", chars |-> chars]

\* !c
Falsy(c) ==
    \/ c.t = "undefined"
    \/ c.t = "string" /\ c.chars = <<>>
    \/ c.t = "number" /\ c.chars = <<"0">>

\* String.prototype.trim
Trim(chars) ==
    LET inked == {i \in 1..Len(chars) : chars[i] # " "}
    IN IF inked = {} THEN <<>>
       ELSE SubSeq(chars,
                   CHOOSE i \in inked : \A j \in inked : i <= j,
                   CHOOSE i \in inked : \A j \in inked : j <= i)

\* [A-Za-z]
Letters == Range(LowerCase) \cup Range(UpperCase)

\* /^[A-Za-z]{3}$/.test(s)
IsThreeLetters(chars) ==
    /\ Len(chars) = 3
    /\ \A i \in 1..3 : chars[i] \in Letters

\* String.prototype.toUpperCase, as a string
ToUpperCase(chars) ==
    LET up(ch) == IF ch \in Range(LowerCase)
                  THEN UpperCase[CHOOSE i \in 1..Len(LowerCase) : LowerCase[i] = ch]
                  ELSE ch
        join[n \in 0..Len(chars)] ==
            IF n = 0 THEN "" ELSE join[n - 1] \o up(chars[n])
    IN join[Len(chars)]

\* the alias table without its entries
AliasIgnored(up) == up

\* alias[up] || up, with alias = { ANT: "NLD", KOS: "XKX" }
Alias(up) ==
    IF up = "ANT" THEN "NLD" ELSE IF up = "KOS" THEN "XKX" ELSE up

\* const candidates = [f.id, p.iso_a3, p.ISO_A3, p.adm0_a3, p.ADM0_A3, p.iso3, p.ISO3]
candidates == <<"id", "iso_a3", "ISO_A3", "adm0_a3", "ADM0_A3", "iso3", "ISO3">>

\* function featureIso3(f); "null" stands for null
featureIso3(f) ==
    LET hits == {i \in 1..Len(candidates) :
                    /\ ~Falsy(f[candidates[i]])
                    /\ IsThreeLetters(Trim(f[candidates[i]].chars))}
    IN IF hits = {} THEN "null"
       ELSE LET first == CHOOSE i \in hits : \A j \in hits : i <= j
            IN Alias(ToUpperCase(Trim(f[candidates[first]].chars)))

\* a feature whose candidates are undefined except the given ones
Feature(given) ==
    [c \in Range(candidates) |-> IF c \in DOMAIN given THEN given[c] ELSE Absent]

----------------------------------------------------------------------------
(* Array helpers                                                           *)

\* Map.prototype.set
MapSet(m, k, v) == [x \in DOMAIN m \cup {k} |-> IF x = k THEN v ELSE m[x]]

EmptyMap == [x \in {} |-> 0]

\* the distinct values of the field of the rows, in order of first
\* appearance: the iteration order of the InternMap that d3.group builds
GroupKeys(s, field) ==
    LET ks[n \in 0..Len(s)] ==
            IF n = 0 THEN <<>>
            ELSE IF s[n][field] \in Range(ks[n - 1]) THEN ks[n - 1]
                 ELSE ks[n - 1] \o <<s[n][field]>>
    IN ks[Len(s)]

\* the rows of one d3.group entry, in input order
GroupRows(s, field, k) == SelectSeq(s, LAMBDA d : d[field] = k)

----------------------------------------------------------------------------
(* JavaScript arithmetic on the values above                               *)

\* ToNumber: null coerces to 0, NaN stays NaN
ToNumber(x) == IF x.t = "null" THEN Num(0) ELSE x

\* a - b
Minus(a, b) ==
    IF ToNumber(a).t = "nan" \/ ToNumber(b).t = "nan" THEN NAN
    ELSE Num(ToNumber(a).v - ToNumber(b).v)

\* isFinite(x)
IsFinite(x) == ToNumber(x).t = "num"

\* a comparator that also puts a before b on a tie
PctDescendingOrTie(a, b) ==
    /\ a.pct_near.t = "num"
    /\ b.pct_near.t = "num"
    /\ b.pct_near.v <= a.pct_near.v

\* d3.descending(a.pct_near, b.pct_near) < 0: a sorts strictly before b
PctDescending(a, b) ==
    /\ a.pct_near.t = "num"
    /\ b.pct_near.t = "num"
    /\ b.pct_near.v < a.pct_near.v

\* d3.ascending(a.year, b.year) < 0
YearAscending(a, b) == a.year < b.year

\* compare(a, b) < 0 for the two comparators loadData sorts with
Before(compare, a, b) ==
    IF compare = "descending pct_near" THEN PctDescending(a, b)
    ELSE YearAscending(a, b)

\* One insertion step of a stable sort: x, which came later in the input,
\* moves in front of the trailing elements the comparator puts it strictly
\* before, and stops at the first element it is not before.
InsertSorted(x, s, compare) ==
    LET stops == {j \in 1..Len(s) : ~Before(compare, x, s[j])}
        pos == IF stops = {} THEN 0
               ELSE CHOOSE j \in stops : \A k \in stops : k <= j
    IN SubSeq(s, 1, pos) \o <<x>> \o SubSeq(s, pos + 1, Len(s))

\* Array.prototype.sort(compare) is stable (ECMAScript 2019)
StableSort(s, compare) ==
    LET sorted[n \in 0..Len(s)] ==
            IF n = 0 THEN <<>> ELSE InsertSorted(s[n], sorted[n - 1], compare)
    IN sorted[Len(s)]

----------------------------------------------------------------------------
(* loadData: the synchronous body that runs once the three sources are in  *)

\* the table kept whole
FilterBuffersSkipped(rows) == rows

\* countryRows.filter(d => buffers.includes(d.buffer_km))
FilterBuffers(rows) == SelectSeq(rows, LAMBDA d : d.buffer_km \in Range(buffers))

\* countryRows.forEach(d => exposureByKey.set(keyExposure(...), d))
BuildExposureByKey(rows) ==
    LET m[n \in 0..Len(rows)] ==
            IF n = 0 THEN EmptyMap
            ELSE MapSet(m[n - 1],
                        keyExposure(rows[n].iso3, rows[n].year, rows[n].buffer_km),
                        rows[n])
    IN m[Len(rows)]

\* d3.group(countryRows, d => d.iso3)
BuildExposuresByCountry(rows) ==
    [iso3 \in Range(GroupKeys(rows, "iso3")) |-> GroupRows(rows, "iso3", iso3)]

\* the subset without the test of pct_near
RankSubsetWithNulls(rows, year, buffer) ==
    SelectSeq(rows, LAMBDA d : d.year = year /\ d.buffer_km = buffer)

\* the rows ranked at one (year, buffer) pair
RankSubset(rows, year, buffer) ==
    SelectSeq(rows, LAMBDA d : /\ d.year = year
                               /\ d.buffer_km = buffer
                               /\ NotNull(d.pct_near))

\* subset.sort((a, b) => d3.descending(a.pct_near, b.pct_near))
SortByPct(subset) == StableSort(subset, "descending pct_near")

\* subset.forEach((d, i) => map.set(d.iso3, i + 1))
AssignRanks(sorted) ==
    LET m[n \in 0..Len(sorted)] ==
            IF n = 0 THEN EmptyMap ELSE MapSet(m[n - 1], sorted[n].iso3, n)
    IN m[Len(sorted)]

\* years.forEach(year => buffers.forEach(buffer => ... rankByYearBuffer.set(...)))
BuildRanks(rows) ==
    [k \in {keyYearBuffer(y, b) : y \in Range(years), b \in Range(buffers)} |->
        AssignRanks(SortByPct(RankSubset(rows, k[1], k[2])))]

\* the delta without the clip at zero
DeltaOfUnclipped(r, prev) ==
    LET raw == Minus(r.pop_near, prev.pop_near)
    IN IF ~IsFinite(raw) THEN NULL ELSE raw

\* let delta = r.pop_near - prev.pop_near;
\* if (!isFinite(delta)) delta = null;
\* if (delta != null && delta < 0) delta = 0;
DeltaOf(r, prev) ==
    LET raw == Minus(r.pop_near, prev.pop_near)
        delta == IF ~IsFinite(raw) THEN NULL ELSE raw
    IN IF NotNull(delta) /\ delta.v < 0 THEN Num(0) ELSE delta

\* the update without the comparison against the old maximum
UpdateMaxDeltaLastWins(max, buffer, delta) ==
    IF NotNull(delta) THEN MapSet(max, buffer, delta.v) ELSE max

\* if (delta != null) { const old = maxDeltaByBuffer.get(buffer) || 0;
\*                      if (delta > old) maxDeltaByBuffer.set(buffer, delta); }
UpdateMaxDelta(max, buffer, delta) ==
    IF NotNull(delta)
    THEN LET old == IF buffer \in DOMAIN max /\ max[buffer] # 0
                    THEN max[buffer] ELSE 0
         IN IF delta.v > old THEN MapSet(max, buffer, delta.v) ELSE max
    ELSE max

\* the group left in input order
SortByYearSkipped(rows) == rows

\* rows.slice().sort((a, b) => d3.ascending(a.year, b.year))
SortByYear(rows) == StableSort(rows, "ascending year")

\* the loop "for (const r of sorted)" of one (iso3, buffer) group, with prev
\* the record of the preceding iteration
WalkGroup(acc, iso3, buffer, rows) ==
    LET sorted == SortByYear(rows)
        step[n \in 0..Len(sorted)] ==
            IF n = 0 THEN acc
            ELSE LET r == sorted[n]
                     a == step[n - 1]
                     key == keyExposure(iso3, r.year, buffer)
                 IN IF n = 1
                    THEN [a EXCEPT !.delta = MapSet(@, key, NULL)]
                    ELSE LET delta == DeltaOf(r, sorted[n - 1])
                         IN [delta |-> MapSet(a.delta, key, delta),
                             max |-> UpdateMaxDelta(a.max, buffer, delta)]
    IN step[Len(sorted)]

\* byBuffer.forEach((rows, buffer) => ...) for one country
WalkCountry(acc, iso3, rows) ==
    LET bs == GroupKeys(rows, "buffer_km")
        step[n \in 0..Len(bs)] ==
            IF n = 0 THEN acc
            ELSE WalkGroup(step[n - 1], iso3, bs[n],
                           GroupRows(rows, "buffer_km", bs[n]))
    IN step[Len(bs)]

\* d3.group(countryRows, d => d.iso3, d => d.buffer_km) and grouped.forEach
BuildDeltas(rows) ==
    LET cs == GroupKeys(rows, "iso3")
        step[n \in 0..Len(cs)] ==
            IF n = 0 THEN [delta |-> EmptyMap, max |-> EmptyMap]
            ELSE WalkCountry(step[n - 1], cs[n], GroupRows(rows, "iso3", cs[n]))
    IN step[Len(cs)]

\* renderMapFills: const maxDeltaPeople = maxDeltaByBuffer.get(state.buffer) || 1
maxDeltaPeople(max, buffer) ==
    IF buffer \in DOMAIN max /\ max[buffer] # 0 THEN max[buffer] ELSE 1

----------------------------------------------------------------------------
(* Rendering: what each render function puts on the page, as a value       *)

\* the module-level data the render functions read
Db ==
    [countryRows |-> countryRows, exposureByKey |-> exposureByKey,
     exposuresByCountry |-> exposuresByCountry,
     rankByYearBuffer |-> rankByYearBuffer,
     deltaExposureByKey |-> deltaExposureByKey,
     maxDeltaByBuffer |-> maxDeltaByBuffer,
     world |-> world, plantRows |-> plantRows]

\* the fields of state a part of the page was computed from
MapFrom(st) == <<st.year, st.buffer, st.selectedIso3>>
PlantsFrom(st) == <<st.showPlants, st.year, st.buffer>>

\* the page before any render function has run
NoView ==
    [rendered |-> FALSE,
     fills |-> [from |-> <<>>, mode |-> "none", bound |-> 0, fill |-> <<>>],
     plants |-> [from |-> <<>>, rows |-> {}],
     title |-> [from |-> <<>>, text |-> "none"],
     bars |-> [from |-> <<>>, data |-> <<>>],
     summary |-> [from |-> <<>>, pieces |-> <<>>],
     thrown |-> FALSE]

\* x is truthy, for a number, null or undefined
Truthy(x) == (x.t = "num" /\ x.v # 0) \/ x.t = "inf"

\* x > 0
Positive(x) == (ToNumber(x).t = "num" /\ ToNumber(x).v > 0) \/ x.t = "inf"

\* d3.max(rows, d => d.pct_near) || 1 over the non-null rows of a baseline map
maxPct(rows) ==
    LET vs == {rows[i].pct_near.v : i \in {j \in 1..Len(rows) : rows[j].pct_near.t = "num"}}
        top == IF vs = {} THEN 0 ELSE CHOOSE v \in vs : \A w \in vs : w <= v
    IN IF top = 0 THEN 1 ELSE top

\* function renderMapFills(): the colour-scale bound and the value behind each
\* feature's fill (NULL for the neutral grey)
renderMapFills(st, db) ==
    LET lookup(m, iso3) ==
            IF iso3 # "null" /\ keyExposure(iso3, st.year, st.buffer) \in DOMAIN m
            THEN m[keyExposure(iso3, st.year, st.buffer)] ELSE UNDEFINED
        baseline(f) ==
            LET row == lookup(db.exposureByKey, featureIso3(f))
            IN IF row = UNDEFINED \/ row.pct_near.t = "null" THEN NULL
               ELSE row.pct_near
        change(f) ==
            LET deltaPeople == lookup(db.deltaExposureByKey, featureIso3(f))
            IN IF deltaPeople.t \in {"undefined", "null"} \/ deltaPeople.v <= 0
               THEN NULL ELSE deltaPeople
    IN IF st.year = 1990
       THEN [from |-> MapFrom(st), mode |-> "baseline",
             bound |-> maxPct(RankSubset(db.countryRows, 1990, st.buffer)),
             fill |-> [i \in 1..Len(db.world) |-> baseline(db.world[i])]]
       ELSE [from |-> MapFrom(st), mode |-> "delta",
             bound |-> maxDeltaPeople(db.maxDeltaByBuffer, st.buffer),
             fill |-> [i \in 1..Len(db.world) |-> change(db.world[i])]]

\* function renderPlants(): the plants drawn, none while the overlay is off
renderPlants(st, db) ==
    LET yearKey == <<st.buffer, st.year>>
        shown == {i \in 1..Len(db.plantRows) :
                     /\ yearKey \in DOMAIN db.plantRows[i].pop
                     /\ NotNull(db.plantRows[i].pop[yearKey])}
    IN [from |-> PlantsFrom(st),
        rows |-> IF st.showPlants THEN {db.plantRows[i].plant : i \in shown} ELSE {}]

\* ((rank / denom) * 100).toFixed(0), as a number
Percent(rank, denom) ==
    LET num(x) == IF x.t = "undefined" THEN NAN ELSE ToNumber(x)
        r == num(rank)
        d == num(denom)
    IN IF r.t # "num" \/ d.t # "num" THEN NAN
       ELSE IF d.v = 0 THEN (IF r.v = 0 THEN NAN ELSE INFINITY)
       ELSE Num((200 * r.v + d.v) \div (2 * d.v))

\* the percentile without its guard
pctRankUnguarded(rank, denom) == Percent(rank, denom)

\* const pctRank = rank && denom ? ((rank / denom) * 100).toFixed(0) : null
pctRank(rank, denom) ==
    IF Truthy(rank) /\ Truthy(denom) THEN Percent(rank, denom) ELSE NULL

\* const rank = rankMap ? rankMap.get(iso3) : null
DetailRank(ranks, iso3, year, buffer) ==
    IF keyYearBuffer(year, buffer) \notin DOMAIN ranks THEN NULL
    ELSE IF iso3 \in DOMAIN ranks[keyYearBuffer(year, buffer)]
    THEN Num(ranks[keyYearBuffer(year, buffer)][iso3])
    ELSE UNDEFINED

\* const denom = rankMap ? rankMap.size : null
DetailDenom(ranks, year, buffer) ==
    IF keyYearBuffer(year, buffer) \notin DOMAIN ranks THEN NULL
    ELSE Num(Cardinality(DOMAIN ranks[keyYearBuffer(year, buffer)]))

\* const data = buffers.map(b => ...): one entry per fixed buffer, zeros
\* where the year has no row
DetailData(rows, year) ==
    [b \in Range(buffers) |->
        LET r == SelectSeq(rows, LAMBDA d : d.year = year /\ d.buffer_km = b)
        IN IF r # <<>>
           THEN [pct_near |-> r[1].pct_near, pop_near |-> r[1].pop_near]
           ELSE [pct_near |-> Num(0), pop_near |-> Num(0)]]

\* one sentence of the narrative
Piece(kind, amount, points) == [kind |-> kind, amount |-> amount, points |-> points]

\* the sentence on the change since the previous decade
ChangePiece(st, rows, data) ==
    IF st.year = 1990 \/ st.buffer \notin DOMAIN data THEN <<>>
    ELSE LET prevRow == SelectSeq(rows, LAMBDA d : /\ d.year = st.year - 10
                                                   /\ d.buffer_km = st.buffer)
         IN IF prevRow = <<>> THEN <<>>
            ELSE LET deltaPeople == Minus(data[st.buffer].pop_near, prevRow[1].pop_near)
                     deltaPct == Minus(data[st.buffer].pct_near, prevRow[1].pct_near)
                 IN IF Positive(deltaPeople) \/ deltaPct # Num(0)
                    THEN << Piece(IF Positive(deltaPeople) THEN "increase"
                                  ELSE "no change", deltaPeople, deltaPct) >>
                    ELSE <<>>

\* the sentence on the rank
RankPiece(st, db, iso3) ==
    LET rank == DetailRank(db.rankByYearBuffer, iso3, st.year, st.buffer)
        denom == DetailDenom(db.rankByYearBuffer, st.year, st.buffer)
    IN IF pctRank(rank, denom) # NULL /\ Truthy(rank)
       THEN << Piece("rank", pctRank(rank, denom), rank) >>
       ELSE <<>>

\* the sentence on the concentration near the plants
ConcentrationPiece(data) ==
    IF 30 \in DOMAIN data /\ 300 \in DOMAIN data /\ Positive(data[300].pct_near)
    THEN LET near == ToNumber(data[30].pct_near)
             far == data[300].pct_near
         IN IF near.t # "num" \/ far.t # "num" THEN << Piece("even", NULL, NULL) >>
            ELSE IF 10 * near.v > 7 * far.v THEN << Piece("high", NULL, NULL) >>
            ELSE IF 10 * near.v < 3 * far.v THEN << Piece("low", NULL, NULL) >>
            ELSE << Piece("even", NULL, NULL) >>
    ELSE <<>>

\* function renderDetail(): title, bars and narrative; old is the page before.
\* current.pct_near.toFixed(1) throws on null, after the title and the bars
\* are on the page and before the narrative is written.
renderDetail(st, db, old) ==
    LET iso3 == st.selectedIso3
    IN IF iso3 = "null" \/ iso3 \notin DOMAIN db.exposuresByCountry
       THEN [title |-> [from |-> MapFrom(st), text |-> "Click a country"],
             bars |-> [from |-> MapFrom(st), data |-> <<>>],
             summary |-> [from |-> MapFrom(st), pieces |-> <<>>],
             thrown |-> FALSE]
       ELSE LET rows == db.exposuresByCountry[iso3]
                data == DetailData(rows, st.year)
                current == st.buffer \in DOMAIN data
                throws == current /\ data[st.buffer].pct_near.t = "null"
                share == IF current
                         THEN << Piece("share", data[st.buffer].pct_near, NULL) >>
                         ELSE <<>>
            IN [title |-> [from |-> MapFrom(st), text |-> "Exposure profile"],
                bars |-> [from |-> MapFrom(st), data |-> data],
                summary |-> IF throws THEN old.summary
                            ELSE [from |-> MapFrom(st),
                                  pieces |-> share \o ChangePiece(st, rows, data)
                                                \o RankPiece(st, db, iso3)
                                                \o ConcentrationPiece(data)],
                thrown |-> throws]

\* function renderAll()
renderAll(st, db, old) ==
    LET detail == renderDetail(st, db, old)
    IN [rendered |-> TRUE,
        fills |-> renderMapFills(st, db),
        plants |-> renderPlants(st, db),
        title |-> detail.title, bars |-> detail.bars,
        summary |-> detail.summary, thrown |-> detail.thrown]

----------------------------------------------------------------------------
(* loadData                                                                *)

\* a Promise.all that settles on the first request to load
AnyLoaded(f) == \E s \in DOMAIN f : f[s] = "loaded"

\* await Promise.all([...]): every request has loaded
AllLoaded(f) == \A s \in DOMAIN f : f[s] = "loaded"

\* everything loadData does once Promise.all has resolved: the indices, then
\* initMap, initDetailChart, initControls and the first renderAll
LoadData ==
    /\ pc = "start"
    /\ AllLoaded(fetch)
    /\ LET rows == FilterBuffers(countryRows)
           built == BuildDeltas(rows)
       IN /\ countryRows' = rows
          /\ exposureByKey' = BuildExposureByKey(rows)
          /\ exposuresByCountry' = BuildExposuresByCountry(rows)
          /\ rankByYearBuffer' = BuildRanks(rows)
          /\ deltaExposureByKey' = built.delta
          /\ maxDeltaByBuffer' = built.max
    /\ UNCHANGED <<sourceRows, state, playTimer, timers, handles, world,
                   plantRows, fetch, messages>>
    \* initControls: the slider and the label show state.year, handlers are on
    /\ sliderValue' = state.year
    /\ yearLabel' = state.year
    \* renderAll over the indices just built
    /\ view' = renderAll(state, Db', view)
    /\ pc' = "ready"
    /\ lastEvent' = [type |-> "load", year |-> state.year, handle |-> 0]

\* one of the three requests of Promise.all completes
SourceLoads(s) ==
    /\ fetch[s] = "pending"
    /\ fetch' = [fetch EXCEPT ![s] = "loaded"]
    /\ UNCHANGED <<pc, sourceRows, countryRows, exposureByKey, exposuresByCountry,
                   rankByYearBuffer, deltaExposureByKey, maxDeltaByBuffer, world,
                   plantRows, messages, view>>
    /\ UNCHANGED uiVars

\* loadData().catch(err => ...): the failure paragraph is appended
CatchLoadError ==
    /\ messages' = messages + 1
    /\ pc' = "failed"

\* one of the three requests fails. Promise.all rejects on the first failure
\* and the catch callback runs before any other event; a promise settles
\* once, so a later failure reaches nobody.
SourceFails(s) ==
    /\ fetch[s] = "pending"
    /\ fetch' = [fetch EXCEPT ![s] = "failed"]
    /\ IF \A r \in DOMAIN fetch : fetch[r] # "failed"
       THEN CatchLoadError
       ELSE UNCHANGED <<pc, messages>>
    /\ UNCHANGED <<sourceRows, countryRows, exposureByKey, exposuresByCountry,
                   rankByYearBuffer, deltaExposureByKey, maxDeltaByBuffer, world,
                   plantRows, view>>
    /\ UNCHANGED uiVars

----------------------------------------------------------------------------
(* Playback                                                                *)

MaxStarts == 3

\* years.indexOf(y), 0-based, -1 when absent
IndexOf(y) ==
    IF y \in Range(years) THEN (CHOOSE i \in 1..Len(years) : years[i] = y) - 1
    ELSE -1

\* startPlayback without its assignment to state.playing
StartPlaybackNoFlag ==
    /\ handles < MaxStarts
    /\ UNCHANGED state
    /\ LET i == IndexOf(state.year)
           idx == IF i < 0 THEN 0 ELSE i
           h == handles + 1
       IN /\ handles' = h
          /\ playTimer' = h
          /\ timers' = [x \in DOMAIN timers \cup {h} |->
                            IF x = h THEN idx ELSE timers[x]]

\* function startPlayback(): setInterval hands out a fresh handle, and the
\* callback closes over idx
StartPlayback ==
    /\ handles < MaxStarts
    /\ state' = [state EXCEPT !.playing = TRUE]
    /\ LET i == IndexOf(state.year)
           idx == IF i < 0 THEN 0 ELSE i
           h == handles + 1
       IN /\ handles' = h
          /\ playTimer' = h
          /\ timers' = [x \in DOMAIN timers \cup {h} |->
                            IF x = h THEN idx ELSE timers[x]]

\* stopPlayback without its clearInterval: the flag flips, the interval lives on
StopPlaybackNoClear ==
    /\ state' = [state EXCEPT !.playing = FALSE]
    /\ UNCHANGED <<timers, playTimer, handles>>

\* function stopPlayback()
StopPlayback ==
    /\ state' = [state EXCEPT !.playing = FALSE]
    /\ IF playTimer # 0
       THEN /\ timers' = [x \in DOMAIN timers \ {playTimer} |-> timers[x]]
            /\ playTimer' = 0
       ELSE UNCHANGED <<timers, playTimer>>
    /\ UNCHANGED handles

\* the click handler without its test of state.playing: every click starts
PlayBtnClickUnguarded ==
    /\ pc = "ready"
    /\ StartPlayback
    /\ lastEvent' = [type |-> "start", year |-> state.year, handle |-> playTimer']
    /\ UNCHANGED <<sliderValue, yearLabel, view>>
    /\ UNCHANGED dataVars

\* playBtn.on("click", ...)
PlayBtnClick ==
    /\ pc = "ready"
    /\ IF state.playing THEN StopPlayback ELSE StartPlayback
    /\ lastEvent' = [type |-> IF state.playing THEN "stop" ELSE "start",
                     year |-> state.year, handle |-> playTimer']
    /\ UNCHANGED <<sliderValue, yearLabel, view>>
    /\ UNCHANGED dataVars

\* the setInterval callback of the interval with handle h
Tick(h) ==
    /\ pc = "ready"
    /\ h \in DOMAIN timers
    /\ LET idx == (timers[h] + 1) % Len(years)
       IN /\ timers' = [timers EXCEPT ![h] = idx]
          /\ state' = [state EXCEPT !.year = years[idx + 1]]
          /\ sliderValue' = years[idx + 1]
          /\ yearLabel' = years[idx + 1]
    /\ view' = renderAll(state', Db, view)
    /\ lastEvent' = [type |-> "tick", year |-> state.year, handle |-> h]
    /\ UNCHANGED <<playTimer, handles>>
    /\ UNCHANGED dataVars

\* a range input that ignores its step
SliderValuesUnstepped ==
    LET min == CHOOSE y \in Range(years) : \A z \in Range(years) : y <= z
        max == CHOOSE y \in Range(years) : \A z \in Range(years) : z <= y
    IN min..max

\* the values the range input can hold: .attr("min", d3.min(years))
\* .attr("max", d3.max(years)).attr("step", 10)
SliderValues ==
    LET min == CHOOSE y \in Range(years) : \A z \in Range(years) : y <= z
        max == CHOOSE y \in Range(years) : \A z \in Range(years) : z <= y
    IN {v \in min..max : (v - min) % 10 = 0}

\* yearSlider.on("input", ...): the user has dragged the slider to v
YearSliderInput(v) ==
    /\ pc = "ready"
    /\ v \in SliderValues
    /\ v # sliderValue
    /\ sliderValue' = v
    /\ state' = [state EXCEPT !.year = v]
    /\ yearLabel' = v
    /\ view' = renderAll(state', Db, view)
    /\ lastEvent' = [type |-> "slider", year |-> state.year, handle |-> 0]
    /\ UNCHANGED <<playTimer, timers, handles>>
    /\ UNCHANGED dataVars

\* the values of the options of the buffer select
BufferOptions == Range(buffers)

\* bufferSelect.on("change", ...): the user has picked the option b
BufferSelectChange(b) ==
    /\ pc = "ready"
    /\ b \in BufferOptions
    /\ b # state.buffer
    /\ state' = [state EXCEPT !.buffer = b]
    /\ view' = renderAll(state', Db, view)
    /\ lastEvent' = [type |-> "buffer", year |-> state.year, handle |-> 0]
    /\ UNCHANGED <<playTimer, timers, handles, sliderValue, yearLabel>>
    /\ UNCHANGED dataVars

\* togglePlants.on("change", ...): the checkbox has flipped
TogglePlantsChange ==
    /\ pc = "ready"
    /\ state' = [state EXCEPT !.showPlants = ~state.showPlants]
    /\ view' = [view EXCEPT !.plants = renderPlants(state', Db)]
    /\ lastEvent' = [type |-> "toggle", year |-> state.year, handle |-> 0]
    /\ UNCHANGED <<playTimer, timers, handles, sliderValue, yearLabel>>
    /\ UNCHANGED dataVars

\* .on("click", (event, d) => ...) of the country paths, on feature i
CountryClick(i) ==
    /\ pc = "ready"
    /\ i \in 1..Len(world)
    /\ LET iso3 == featureIso3(world[i])
       IN IF iso3 = "null"
          THEN UNCHANGED <<state, view>>
          ELSE /\ state' = [state EXCEPT !.selectedIso3 = iso3]
               /\ view' = renderAll(state', Db, view)
    /\ lastEvent' = [type |-> "click", year |-> state.year, handle |-> i]
    /\ UNCHANGED <<playTimer, timers, handles, sliderValue, yearLabel>>
    /\ UNCHANGED dataVars

----------------------------------------------------------------------------
(* Specifications                                                          *)

Row(iso3, year, buffer, pct, pop) ==
    [iso3 |-> iso3, year |-> year, buffer_km |-> buffer,
     pct_near |-> pct, pop_near |-> pop]

\* the boundaries file of the interactive specification: a feature with its
\* code in id, one with placeholders before its code, one under an alias that
\* the table does not know, and one without a code
SampleWorld ==
    << Feature("id" :> Str(<<"F", "R", "A">>)),
       Feature(("id" :> Str(<<"-", "9", "9">>)) @@ ("iso_a3" :> Str(<<"-", "9", "9">>))
               @@ ("adm0_a3" :> Str(<<"d", "e", "u">>))),
       Feature("id" :> Str(<<"A", "N", "T">>)),
       Feature("id" :> Number(<<"2", "5", "0">>)) >>

\* a plant row: its name and its pop<buffer>_<year> columns
Plant(name, pop) == [plant |-> name, pop |-> pop]

\* a plant with every column filled and one with gaps
SamplePlants ==
    << Plant("P1", [k \in {<<b, y>> : b \in Range(buffers), y \in Range(years)} |-> Num(1)]),
       Plant("P2", [k \in {<<b, y>> : b \in Range(buffers), y \in Range(years)} |->
                       IF k[2] = 2010 THEN NULL ELSE Num(2)]) >>

Sources == {"world", "country", "plants"}

\* the state of the module-level declarations, with rows and features as the
\* parsed files and the three requests in the given status
InitOf(rows, features, status) ==
    /\ world = features
    /\ plantRows = SamplePlants
    /\ fetch = [s \in Sources |-> status]
    /\ messages = 0
    /\ view = NoView
    /\ pc = "start"
    /\ sourceRows = rows
    /\ countryRows = rows
    /\ exposureByKey = EmptyMap
    /\ exposuresByCountry = EmptyMap
    /\ rankByYearBuffer = EmptyMap
    /\ deltaExposureByKey = EmptyMap
    /\ maxDeltaByBuffer = EmptyMap
    /\ state = [year |-> 2010, buffer |-> 30, selectedIso3 |-> "null",
                showPlants |-> FALSE, playing |-> FALSE]
    /\ playTimer = 0
    /\ timers = EmptyMap
    /\ handles = 0
    /\ sliderValue = 0
    /\ yearLabel = 0
    /\ lastEvent = [type |-> "none", year |-> 2010, handle |-> 0]

\* the state once the three files are in, with rows as the parsed table
InitWith(rows) == InitOf(rows, SampleWorld, "loaded")

\* a small table for the interactive specification
SampleRows ==
    << Row("FRA", 2000, 30, Num(5), Num(10)),
       Row("FRA", 2010, 30, Num(6), Num(12)),
       Row("DEU", 2010, 30, Num(6), Num(9)),
       Row("DEU", 2010, 50, Num(8), Num(11)),
       Row("DEU", 2000, 30, NULL, Num(8)),
       Row("FRA", 2000, 300, Num(9), Num(30)),
       Row("FRA", 2010, 300, Num(8), Num(25)) >>

Init == InitWith(SampleRows)

\* the page right after the script has called loadData(): the three requests
\* are in flight
InitLoad == InitOf(SampleRows, SampleWorld, "pending")

Next ==
    \/ LoadData
    \/ PlayBtnClick
    \/ \E h \in DOMAIN timers : Tick(h)
    \/ \E v \in SliderValues : YearSliderInput(v)
    \/ \E b \in BufferOptions : BufferSelectChange(b)
    \/ TogglePlantsChange
    \/ \E i \in 1..Len(world) : CountryClick(i)

Spec == Init /\ [][Next]_vars

\* the requests settle in any order, then the page is used
NextLoad ==
    \/ \E s \in Sources : SourceLoads(s)
    \/ \E s \in Sources : SourceFails(s)
    \/ LoadData
    \/ \E v \in SliderValues : YearSliderInput(v)
    \/ \E b \in BufferOptions : BufferSelectChange(b)
    \/ TogglePlantsChange
    \/ \E i \in 1..Len(world) : CountryClick(i)

SpecLoad == InitLoad /\ [][NextLoad]_vars

\* features for featureIso3: at most MaxCandidates of the seven candidates are
\* present, each with one of the texts below
MaxCandidates == 2

CodeInputs ==
    { Str(<<"f", "r", "a">>), Str(<<" ", "F", "r", "a", " ">>),
      Str(<<"A", "N", "T">>), Str(<<"k", "o", "s">>), Str(<<"-", "9", "9">>),
      Str(<<"F", "R", "A", "N">>), Str(<<>>), Number(<<"2", "5", "0">>) }

InitIso ==
    \E P \in SUBSET Range(candidates) :
        /\ Cardinality(P) <= MaxCandidates
        /\ \E given \in [P -> CodeInputs] :
               InitOf(<< Row("FRA", 2010, 30, Num(6), Num(12)) >>,
                      << Feature(given) >>, "loaded")

NextIso == LoadData \/ CountryClick(1)

SpecIso == InitIso /\ [][NextIso]_vars

----------------------------------------------------------------------------
(* Playback properties                                                     *)

\* C1: in every reachable state at most one playback interval is active;
\* a click on the play button while playback runs never adds a second one.
AtMostOneTimer == Cardinality(DOMAIN timers) <= 1

\* playback was started, stopped by a click while running, and started again
RestartedOnce ==
    /\ state.playing
    /\ handles >= 2
    /\ Cardinality(DOMAIN timers) = 1

\* the cyclic successor of y in years
NextYear(y) == years[((IndexOf(y) + 1) % Len(years)) + 1]

\* C2: every tick sets state.year to the cyclic successor of the year that
\* state held just before the tick, also when the slider moved the year
\* while playback was running.
TickAdvancesCurrentYear ==
    lastEvent.type = "tick" => state.year = NextYear(lastEvent.year)

\* C3: a tick runs only while playback is on and only from the interval of
\* the latest start; once stopPlayback has returned no tick fires until
\* playback is started again.
TickOnlyFromLiveTimer ==
    lastEvent.type = "tick" =>
        /\ state.playing
        /\ lastEvent.handle = playTimer

\* a tick of the interval created by a start that followed a stop
TickAfterRestart ==
    /\ lastEvent.type = "tick"
    /\ handles >= 2

----------------------------------------------------------------------------
(* Bounded tables for the load-time computations                           *)

MaxRows == 3
MaxPct == 2
MaxPop == 2

Entities == <<"AAA", "BBB", "CCC">>

\* the candidate keys of a table, in a fixed order; (iso3, year, buffer_km)
\* is the primary key of a row, so each occurs at most once
KeySlots(es, ys, bs) ==
    [i \in 1..(Len(es) * Len(ys) * Len(bs)) |->
        << es[((i - 1) \div (Len(ys) * Len(bs))) + 1],
           ys[(((i - 1) \div Len(bs)) % Len(ys)) + 1],
           bs[((i - 1) % Len(bs)) + 1] >>]

Ascending(S) ==
    [i \in 1..Cardinality(S) |->
        CHOOSE x \in S : Cardinality({y \in S : y < x}) = i - 1]

Reverse(s) == [i \in 1..Len(s) |-> s[Len(s) + 1 - i]]

\* the table with one row per slot i in S, whose column holds cell[i] and
\* whose other numeric column holds 1, in slot order or in the opposite order
Table(slots, S, cell, column, reversed) ==
    LET idx == Ascending(S)
        rows == [i \in 1..Len(idx) |->
                    LET k == slots[idx[i]]
                    IN [Row(k[1], k[2], k[3], Num(1), Num(1))
                            EXCEPT ![column] = cell[idx[i]]]]
    IN IF reversed THEN Reverse(rows) ELSE rows

Picks(n) == {S \in SUBSET (1..n) : Cardinality(S) <= MaxRows}

\* tables that vary pct_near
PctValues == {NULL} \cup {Num(n) : n \in 1..MaxPct}
RankSlots ==
    KeySlots(Entities, <<2010>>, <<30, 50>>)
        \o KeySlots(<<"AAA", "BBB">>, <<2010>>, <<75>>)
        \o KeySlots(<<"AAA">>, <<2000>>, <<30>>)

\* the boundaries file of the bounded tables: one feature, of the entity AAA
TableWorld == << Feature("id" :> Str(<<"A", "A", "A">>)) >>

InitRank ==
    \E S \in Picks(Len(RankSlots)) : \E cell \in [S -> PctValues] :
        \E reversed \in BOOLEAN :
            InitOf(Table(RankSlots, S, cell, "pct_near", reversed), TableWorld, "loaded")

SpecRank == InitRank /\ [][LoadData]_vars

\* tables that vary pop_near
PopValues == {NULL, NAN} \cup {Num(n) : n \in 1..MaxPop}
DeltaSlots ==
    KeySlots(<<"AAA", "BBB">>, years, <<30>>)
        \o KeySlots(<<"AAA">>, <<1990, 2000>>, <<75>>)

InitDelta ==
    \E S \in Picks(Len(DeltaSlots)) : \E cell \in [S -> PopValues] :
        \E reversed \in BOOLEAN :
            InitOf(Table(DeltaSlots, S, cell, "pop_near", reversed), TableWorld, "loaded")

SpecDelta == InitDelta /\ [][LoadData]_vars

----------------------------------------------------------------------------
(* Rank properties                                                         *)

Pairs == {keyYearBuffer(y, b) : y \in Range(years), b \in Range(buffers)}

\* positions in countryRows of the rows at pair k with non-null pct_near
RankedAt(k) ==
    {i \in 1..Len(countryRows) :
        /\ countryRows[i].year = k[1]
        /\ countryRows[i].buffer_km = k[2]
        /\ NotNull(countryRows[i].pct_near)}

\* C4: at every (year, buffer) pair the rank map holds exactly the ranks
\* 1..N, each once, N being the number of rows at the pair with non-null
\* pct_near; its size is N; an entity without such a row has no rank.
RanksAreOneToN ==
    pc = "ready" =>
        \A k \in Pairs :
            LET m == rankByYearBuffer[k]
                N == Cardinality(RankedAt(k))
            IN /\ Cardinality(DOMAIN m) = N
               /\ {m[e] : e \in DOMAIN m} = 1..N
               /\ DOMAIN m = {countryRows[i].iso3 : i \in RankedAt(k)}

\* a pair with two ranked entities and a third whose pct_near is null
RankedBesideUnranked ==
    /\ pc = "ready"
    /\ \E k \in Pairs :
        /\ Cardinality(RankedAt(k)) = 2
        /\ \E i \in 1..Len(countryRows) :
            /\ countryRows[i].year = k[1]
            /\ countryRows[i].buffer_km = k[2]
            /\ ~NotNull(countryRows[i].pct_near)

\* C5: at every pair, a larger pct_near has the smaller rank, and of two
\* equal pct_near the row that comes first in the input has the smaller rank.
RankFollowsPctThenInputOrder ==
    pc = "ready" =>
        \A k \in Pairs : \A i, j \in RankedAt(k) :
            LET a == countryRows[i]
                b == countryRows[j]
                m == rankByYearBuffer[k]
            IN /\ a.pct_near.v > b.pct_near.v => m[a.iso3] < m[b.iso3]
               /\ (a.pct_near.v = b.pct_near.v /\ i < j) => m[a.iso3] < m[b.iso3]

\* a pair with a tie between two entities below a third, larger pct_near
TieBelowLeader ==
    /\ pc = "ready"
    /\ \E k \in Pairs : \E i, j, l \in RankedAt(k) :
        /\ i < j
        /\ countryRows[i].pct_near.v = countryRows[j].pct_near.v
        /\ countryRows[l].pct_near.v > countryRows[i].pct_near.v
        /\ rankByYearBuffer[k][countryRows[l].iso3] = 1

----------------------------------------------------------------------------
(* Delta properties                                                        *)

\* the input has a row for the key
HasRecord(iso3, year, buffer) ==
    \E i \in 1..Len(countryRows) :
        /\ countryRows[i].iso3 = iso3
        /\ countryRows[i].year = year
        /\ countryRows[i].buffer_km = buffer

RecordAt(iso3, year, buffer) ==
    countryRows[CHOOSE i \in 1..Len(countryRows) :
                    /\ countryRows[i].iso3 = iso3
                    /\ countryRows[i].year = year
                    /\ countryRows[i].buffer_km = buffer]

\* C6: a key whose preceding year of the fixed sequence has no record for
\* the same entity and buffer holds "no value" in the delta index.
NoDeltaWithoutPreviousDecade ==
    pc = "ready" =>
        \A k \in DOMAIN deltaExposureByKey :
            (k[2] # years[1] /\ ~HasRecord(k[1], k[2] - 10, k[3]))
                => deltaExposureByKey[k] = NULL

\* C7: every stored delta is "no value" or a number >= 0, and where the
\* record and the record of the previous decade both have a numeric
\* pop_near it is max(0, pop_near now - pop_near before).
DeltaIsClippedDifference ==
    pc = "ready" =>
        /\ \A k \in DOMAIN deltaExposureByKey :
              \/ deltaExposureByKey[k] = NULL
              \/ deltaExposureByKey[k].t = "num" /\ deltaExposureByKey[k].v >= 0
        /\ \A i \in 1..Len(countryRows) :
              LET r == countryRows[i]
                  k == keyExposure(r.iso3, r.year, r.buffer_km)
              IN (/\ HasRecord(r.iso3, r.year - 10, r.buffer_km)
                  /\ r.pop_near.t = "num"
                  /\ RecordAt(r.iso3, r.year - 10, r.buffer_km).pop_near.t = "num")
                 => LET d == r.pop_near.v
                               - RecordAt(r.iso3, r.year - 10, r.buffer_km).pop_near.v
                    IN /\ k \in DOMAIN deltaExposureByKey
                       /\ deltaExposureByKey[k] = Num(IF d < 0 THEN 0 ELSE d)

\* a decrease between two decades, stored as 0
DecreaseStoredAsZero ==
    /\ pc = "ready"
    /\ \E i \in 1..Len(countryRows) :
        LET r == countryRows[i]
        IN /\ HasRecord(r.iso3, r.year - 10, r.buffer_km)
           /\ r.pop_near.t = "num"
           /\ RecordAt(r.iso3, r.year - 10, r.buffer_km).pop_near.t = "num"
           /\ r.pop_near.v < RecordAt(r.iso3, r.year - 10, r.buffer_km).pop_near.v
           /\ deltaExposureByKey[keyExposure(r.iso3, r.year, r.buffer_km)] = Num(0)

\* C8: an (entity, buffer) pair with a record at the earliest year holds
\* "no value" there, whatever other years it has records for.
EarliestYearHasNoDelta ==
    pc = "ready" =>
        \A i \in 1..Len(countryRows) :
            LET r == countryRows[i]
                k == keyExposure(r.iso3, r.year, r.buffer_km)
            IN r.year = years[1] =>
                /\ k \in DOMAIN deltaExposureByKey
                /\ deltaExposureByKey[k] = NULL

\* the 1990 row of a pair comes after a later year of the pair in the input
EarliestYearListedLast ==
    /\ pc = "ready"
    /\ \E i, j \in 1..Len(countryRows) :
        /\ i < j
        /\ countryRows[j].year = years[1]
        /\ countryRows[i].year # years[1]
        /\ countryRows[i].iso3 = countryRows[j].iso3
        /\ countryRows[i].buffer_km = countryRows[j].buffer_km
        /\ deltaExposureByKey[keyExposure(countryRows[i].iso3, countryRows[i].year,
                                          countryRows[i].buffer_km)] # NULL

\* C9: a key whose record, or whose previous-year record, has a null
\* pop_near holds "no value"; null is never subtracted as the number 0.
NoDeltaFromNullPopulation ==
    pc = "ready" =>
        \A i \in 1..Len(countryRows) :
            LET r == countryRows[i]
                k == keyExposure(r.iso3, r.year, r.buffer_km)
            IN (\/ r.pop_near = NULL
                \/ /\ HasRecord(r.iso3, r.year - 10, r.buffer_km)
                   /\ RecordAt(r.iso3, r.year - 10, r.buffer_km).pop_near = NULL)
               => deltaExposureByKey[k] = NULL

\* the numbers the delta index holds at a buffer
DeltasAt(buffer) ==
    {deltaExposureByKey[k].v :
        k \in {x \in DOMAIN deltaExposureByKey :
                  x[3] = buffer /\ deltaExposureByKey[x].t = "num"}}

\* C10: the bound the change view normalises by is the largest delta of
\* the buffer when that is positive and 1 otherwise; it is never 0.
MaxDeltaIsLargestOrOne ==
    pc = "ready" =>
        \A b \in Range(buffers) :
            LET bound == maxDeltaPeople(maxDeltaByBuffer, b)
                D == DeltasAt(b)
            IN /\ bound # 0
               /\ IF \E d \in D : d > 0
                  THEN bound \in D /\ \A d \in D : d <= bound
                  ELSE bound = 1

\* one buffer whose largest delta is followed by a smaller one, another
\* buffer with only a zero delta
LargestDeltaNotLast ==
    /\ pc = "ready"
    /\ \E b \in Range(buffers) : \E e \in Range(Entities) :
        /\ keyExposure(e, 2000, b) \in DOMAIN deltaExposureByKey
        /\ keyExposure(e, 2010, b) \in DOMAIN deltaExposureByKey
        /\ deltaExposureByKey[keyExposure(e, 2000, b)].t = "num"
        /\ deltaExposureByKey[keyExposure(e, 2000, b)].v > 0
        /\ deltaExposureByKey[keyExposure(e, 2010, b)] = Num(0)
    /\ maxDeltaPeople(maxDeltaByBuffer, 300) = 1

----------------------------------------------------------------------------
(* Point index                                                             *)

RowKey(d) == keyExposure(d.iso3, d.year, d.buffer_km)

\* C11: with (iso3, year, buffer_km) unique among the source rows, the
\* lookup at the triple of a source row whose buffer is in the fixed set
\* returns that row unchanged, and the lookup at any other triple (rows of
\* a buffer outside the set, or no row) is absent.
PointIndexEchoesSource ==
    pc = "ready" =>
        /\ \A i \in 1..Len(sourceRows) :
              sourceRows[i].buffer_km \in Range(buffers) =>
                  /\ RowKey(sourceRows[i]) \in DOMAIN exposureByKey
                  /\ exposureByKey[RowKey(sourceRows[i])] = sourceRows[i]
        /\ \A k \in DOMAIN exposureByKey :
              \E i \in 1..Len(sourceRows) :
                  /\ RowKey(sourceRows[i]) = k
                  /\ k[3] \in Range(buffers)

\* a loaded table with a row inside and a row outside the fixed buffers
MixedBuffersLoaded ==
    /\ pc = "ready"
    /\ \E i, j \in 1..Len(sourceRows) :
        /\ sourceRows[i].buffer_km \in Range(buffers)
        /\ sourceRows[j].buffer_km \notin Range(buffers)
        /\ RowKey(sourceRows[i]) \in DOMAIN exposureByKey

----------------------------------------------------------------------------
(* View state properties                                                   *)

NothingBuilt ==
    /\ exposureByKey = EmptyMap
    /\ exposuresByCountry = EmptyMap
    /\ rankByYearBuffer = EmptyMap
    /\ deltaExposureByKey = EmptyMap
    /\ maxDeltaByBuffer = EmptyMap
    /\ ~view.rendered
    /\ lastEvent.type = "none"

\* C13: nothing is built, no handler runs and nothing is rendered before all
\* three requests have loaded, whatever their order; once one has failed the
\* indices are never built, nothing is rendered and exactly one failure
\* message is on the page; without a failure there is no message.
NothingBeforeAllLoaded ==
    /\ (\E s \in Sources : fetch[s] # "loaded") => NothingBuilt /\ pc # "ready"
    /\ (\E s \in Sources : fetch[s] = "failed") => messages = 1 /\ pc = "failed"
    /\ (\A s \in Sources : fetch[s] # "failed") => messages = 0

\* two requests have failed after one had loaded
TwoFailuresOneMessage ==
    /\ Cardinality({s \in Sources : fetch[s] = "failed"}) = 2
    /\ Cardinality({s \in Sources : fetch[s] = "loaded"}) = 1
    /\ messages = 1

\* a call of stopPlayback in a stopped state that changes the flag or the timer
StopWhileStoppedChanges ==
    /\ ~state.playing
    /\ playTimer = 0
    /\ StopPlayback
    /\ <<state, playTimer, timers>>' # <<state, playTimer, timers>>
    /\ UNCHANGED <<sliderValue, yearLabel, lastEvent, view>>
    /\ UNCHANGED dataVars

\* C19: state.playing is true exactly when playTimer holds the handle of an
\* active interval, and a call of stopPlayback while stopped changes neither
\* the flag nor the timer.
PlayingIffTimer ==
    /\ state.playing <=> playTimer # 0
    /\ playTimer # 0 => playTimer \in DOMAIN timers
    /\ ~ENABLED StopWhileStoppedChanges

\* playback has been started and stopped again
StoppedAfterPlaying ==
    /\ lastEvent.type = "stop"
    /\ ~state.playing
    /\ playTimer = 0
    /\ handles >= 1

----------------------------------------------------------------------------
(* featureIso3 properties                                                  *)

\* the code each text of CodeInputs stands for, "null" for none
ExpectedCode(c) ==
    IF c = Str(<<"f", "r", "a">>) \/ c = Str(<<" ", "F", "r", "a", " ">>) THEN "FRA"
    ELSE IF c = Str(<<"A", "N", "T">>) THEN "NLD"
    ELSE IF c = Str(<<"k", "o", "s">>) THEN "XKX"
    ELSE "null"

\* every string of three uppercase letters
ThreeUpperCase ==
    {a \o b \o c : a \in Range(UpperCase), b \in Range(UpperCase), c \in Range(UpperCase)}

\* C17: featureIso3 returns the code of the first candidate, in the order id,
\* iso_a3, ISO_A3, adm0_a3, ADM0_A3, iso3, ISO3, that is three letters after
\* trimming, in uppercase and with ANT read as NLD and KOS as XKX, and null
\* when there is none; the result is null or three uppercase letters, never
\* ANT or KOS; a click selects that code and a click on a feature without a
\* code selects nothing.
FeatureCodeIsFirstThreeLetterCandidate ==
    \A i \in 1..Len(world) :
        LET order == <<"id", "iso_a3", "ISO_A3", "adm0_a3", "ADM0_A3", "iso3", "ISO3">>
            coded == {j \in 1..7 : ExpectedCode(world[i][order[j]]) # "null"}
            expected == IF coded = {} THEN "null"
                        ELSE ExpectedCode(world[i][order[
                                 CHOOSE j \in coded : \A k \in coded : j <= k]])
            r == featureIso3(world[i])
        IN /\ r = expected
           /\ r = "null" \/ r \in ThreeUpperCase
           /\ r \notin {"ANT", "KOS"}
           /\ lastEvent.type = "click" /\ lastEvent.handle = i =>
                  state.selectedIso3 = r

\* a click on a feature whose id is no code and whose later candidate is the
\* alias key in lowercase
AliasBehindPlaceholderClicked ==
    /\ lastEvent.type = "click"
    /\ world[1]["id"] = Str(<<"-", "9", "9">>)
    /\ \E c \in Range(candidates) : world[1][c] = Str(<<"k", "o", "s">>)
    /\ state.selectedIso3 = "XKX"

----------------------------------------------------------------------------
(* Detail panel properties                                                 *)

\* C14: no render pass throws, whatever the state and the loaded table: not
\* for an unknown selected entity, a key without a record, or a record whose
\* pct_near or pop_near is null.
RenderPassNeverThrows == ~view.thrown

\* C15: when the selected entity is in the store and has no record at the
\* current (year, buffer), the narrative reports incomplete data and contains
\* no sentence on the exposure share.
MissingRecordReportedAsMissing ==
    ( /\ pc = "ready"
      /\ state.selectedIso3 \in DOMAIN exposuresByCountry
      /\ keyExposure(state.selectedIso3, state.year, state.buffer)
             \notin DOMAIN exposureByKey
      /\ view.summary.from = MapFrom(state) )
    => /\ \E n \in 1..Len(view.summary.pieces) :
              view.summary.pieces[n].kind = "incomplete"
       /\ \A n \in 1..Len(view.summary.pieces) :
              view.summary.pieces[n].kind # "share"

\* C16: for every entity and every (year, buffer) pair the percentile is
\* computed exactly when the entity has a non-null pct_near at the pair, which
\* makes the number of ranked entities positive, and it is then a number from
\* 1 to 100; otherwise it is skipped.
PercentileOnlyWhenRanked ==
    pc = "ready" =>
        \A e \in Range(Entities) : \A k \in Pairs :
            LET p == pctRank(DetailRank(rankByYearBuffer, e, k[1], k[2]),
                             DetailDenom(rankByYearBuffer, k[1], k[2]))
                ranked == {i \in 1..Len(sourceRows) :
                              /\ sourceRows[i].year = k[1]
                              /\ sourceRows[i].buffer_km = k[2]
                              /\ sourceRows[i].pct_near # NULL}
            IN IF \E i \in ranked : sourceRows[i].iso3 = e
               THEN p.t = "num" /\ p.v \in 1..100
               ELSE p = NULL

\* a pair where one entity has a percentile beside an entity with a record
\* and no rank, and a pair whose rank mapping is empty
PercentileBesideSkipped ==
    /\ pc = "ready"
    /\ \E k \in Pairs : rankByYearBuffer[k] = EmptyMap
    /\ \E e1, e2 \in Range(Entities) : \E k \in Pairs :
          /\ pctRank(DetailRank(rankByYearBuffer, e1, k[1], k[2]),
                     DetailDenom(rankByYearBuffer, k[1], k[2])) # NULL
          /\ keyExposure(e2, k[1], k[2]) \in DOMAIN exposureByKey
          /\ DetailRank(rankByYearBuffer, e2, k[1], k[2]) = UNDEFINED

\* C18: once the page is up, after every handler the map fills, the plant
\* overlay, the title, the bars and the narrative are the ones computed from
\* the current year, buffer, selected entity and overlay flag, and the label
\* and the slider show the current year.
ViewDerivedFromState ==
    pc = "ready" =>
        /\ view.fills.from = MapFrom(state)
        /\ view.plants.from = PlantsFrom(state)
        /\ view.title.from = MapFrom(state)
        /\ view.bars.from = MapFrom(state)
        /\ view.summary.from = MapFrom(state)
        /\ yearLabel = state.year
        /\ sliderValue = state.year

\* C20: for a selected entity of the store and a year other than 1990, a
\* sentence on the change in exposed people is in the narrative only when the
\* delta index holds a value at (entity, year, buffer), states that value,
\* and states no negative amount.
ChangeAgreesWithDeltaIndex ==
    ( /\ pc = "ready"
      /\ state.selectedIso3 \in DOMAIN exposuresByCountry
      /\ state.year # 1990
      /\ view.summary.from = MapFrom(state) )
    => \A n \in 1..Len(view.summary.pieces) :
          view.summary.pieces[n].kind \in {"increase", "no change"} =>
              LET key == keyExposure(state.selectedIso3, state.year, state.buffer)
              IN /\ key \in DOMAIN deltaExposureByKey
                 /\ deltaExposureByKey[key] = view.summary.pieces[n].amount
                 /\ view.summary.pieces[n].amount.t = "num"
                 /\ view.summary.pieces[n].amount.v >= 0

====
